---- MODULE Spec2Model ----
(***************************************************************************)
(* PCIe collector of node_exporter (collector/pcie_linux.go): the pci.ids  *)
(* loader, the name resolvers, the value normalizers and the per-poll      *)
(* device metric collection.                                               *)
(*                                                                         *)
(* Go strings are modelled as sequences of one-character strings, so that  *)
(* prefix tests, trimming, splitting and case folding are computed the way *)
(* the strings package computes them.  Go maps are modelled as functions   *)
(* whose DOMAIN is the set of keys present.                                *)
(***************************************************************************)
EXTENDS Integers, Sequences, FiniteSets, TLC

(***************************************************************************)
(* Bounds of the model.                                                    *)
(***************************************************************************)
\* longest pci.ids file read by the loader, in lines
MaxLines == 3
\* most device directories one enumeration returns
MaxDevices == 2

(***************************************************************************)
(* package strings                                                         *)
(***************************************************************************)
HasPrefix(s, p) == Len(s) >= Len(p) /\ SubSeq(s, 1, Len(p)) = p

HasSuffix(s, p) == Len(s) >= Len(p) /\ SubSeq(s, Len(s) - Len(p) + 1, Len(s)) = p

TrimPrefix(s, p) == IF HasPrefix(s, p) THEN SubSeq(s, Len(p) + 1, Len(s)) ELSE s

TrimSuffix(s, p) == IF HasSuffix(s, p) THEN SubSeq(s, 1, Len(s) - Len(p)) ELSE s

\* the white space of the model's alphabet (unicode.IsSpace)
Space == {" ", "\t", "\n", "\r"}

RECURSIVE TrimLeft(_)
TrimLeft(s) == IF s # <<>> /\ Head(s) \in Space THEN TrimLeft(Tail(s)) ELSE s

RECURSIVE TrimRight(_)
TrimRight(s) ==
  IF s # <<>> /\ s[Len(s)] \in Space THEN TrimRight(SubSeq(s, 1, Len(s) - 1)) ELSE s

TrimSpace(s) == TrimRight(TrimLeft(s))

UpperChars == <<"A","B","C","D","E","F","G","H","I","J","K","L","M",
                "N","O","P","Q","R","S","T","U","V","W","X","Y","Z">>

LowerChars == <<"a","b","c","d","e","f","g","h","i","j","k","l","m",
                "n","o","p","q","r","s","t","u","v","w","x","y","z">>

LowerChar(c) ==
  IF \E i \in 1..26 : UpperChars[i] = c
    THEN LowerChars[CHOOSE i \in 1..26 : UpperChars[i] = c]
    ELSE c

ToLower(s) == [i \in 1..Len(s) |-> LowerChar(s[i])]

\* strings.SplitN(s, sep, 2): cut at the first occurrence of sep, if any
SplitN2(s, sep) ==
  LET hits == {i \in 1..(Len(s) - Len(sep) + 1) : SubSeq(s, i, i + Len(sep) - 1) = sep}
  IN  IF hits = {} THEN <<s>>
      ELSE LET i == CHOOSE h \in hits : \A g \in hits : h <= g
           IN  <<SubSeq(s, 1, i - 1), SubSeq(s, i + Len(sep), Len(s))>>

\* fmt.Sprintf("%s:%s", a, b)
SprintfColon(a, b) == a \o <<":">> \o b

(***************************************************************************)
(* Go maps                                                                 *)
(***************************************************************************)
EmptyMap == [k \in {} |-> <<>>]

MapPut(m, k, v) == [x \in (DOMAIN m) \cup {k} |-> IF x = k THEN v ELSE m[x]]

\* m[k][k2] = v, creating the inner map when m[k] is nil
MapPut2(m, k, k2, v) ==
  MapPut(m, k, MapPut(IF k \in DOMAIN m THEN m[k] ELSE EmptyMap, k2, v))

(***************************************************************************)
(* The pci.ids files the loader is run on: every sequence of at most       *)
(* MaxLines lines drawn from LinePool.                                     *)
(***************************************************************************)
Tab == "\t"

\* "C 06  Br"
LineClass == <<"C"," ","0","6"," "," ","B","r">>
\* "\t04  Pb"
LineSubclass == <<Tab,"0","4"," "," ","P","b">>
\* "8086  In"
LineVendor == <<"8","0","8","6"," "," ","I","n">>
\* "\t1234  Ni"
LineDevice == <<Tab,"1","2","3","4"," "," ","N","i">>
\* "\t\t8086 0001  Sb"
LineSubsystem == <<Tab,Tab,"8","0","8","6"," ","0","0","0","1"," "," ","S","b">>
\* "\t\t\t01  Pi"
LineTripleTab == <<Tab,Tab,Tab,"0","1"," "," ","P","i">>
\* "# c"
LineComment == <<"#"," ","c">>
\* "80AB Ac": one space only, not a declaration
LineNoSeparator == <<"8","0","A","B"," ","A","c">>

LinePool == {LineClass, LineSubclass, LineVendor, LineDevice, LineSubsystem,
             LineTripleTab, LineComment, <<>>, LineNoSeparator}

RECURSIVE SeqsUpTo(_, _)
SeqsUpTo(S, n) ==
  IF n = 0 THEN {<<>>}
  ELSE LET shorter == SeqsUpTo(S, n - 1)
       IN  shorter \cup {Append(q, x) : q \in {r \in shorter : Len(r) = n - 1}, x \in S}

Files == SeqsUpTo(LinePool, MaxLines)

\* pciIdsPaths
NumPaths == 2

VARIABLES
  openable,          \* openable[i]: os.Open succeeds on pciIdsPaths[i]
  loadPC,            \* "open", "scan" or "done": position of init()/loadPCIIds
  file,              \* index of the path loadPCIIds opened, 0 if none
  scanner,           \* lines of the opened file not yet scanned
  scanned,           \* lines of the opened file scanner.Scan() has returned
  currentVendor, currentDevice, currentBaseClass, currentSubclass,
  pciVendors, pciDevices, pciSubsystems, pciClasses, pciSubclasses,
  pc,                \* pc[p]: "idle", "collect" or "returned": position of Update
  devices,           \* devices[p]: the paths filepath.Glob returned to poll p
  next,              \* next[p]: index in devices[p] of the next device
  chans,             \* chans[p]: the observations poll p has sent on its ch, in order
  err,               \* err[p]: the error of filepath.Glob in poll p: "nil" or "ErrBadPattern"
  ret                \* ret[p]: what Update returned: "none" yet, "nil" or "error"

loaderLocals == <<currentVendor, currentDevice, currentBaseClass, currentSubclass>>

tables == <<pciVendors, pciDevices, pciSubsystems, pciClasses, pciSubclasses>>

loader == <<openable, loadPC, file, scanner, scanned, loaderLocals>>

polls == <<pc, devices, next, chans, err, ret>>

vars == <<loader, tables, polls>>

(***************************************************************************)
(* loadPCIIds: one iteration of the scanner loop, as a function of the     *)
(* loader state st and the line.                                           *)
(***************************************************************************)
LoaderState ==
  [currentVendor |-> currentVendor, currentDevice |-> currentDevice,
   currentBaseClass |-> currentBaseClass, currentSubclass |-> currentSubclass,
   pciVendors |-> pciVendors, pciDevices |-> pciDevices,
   pciSubsystems |-> pciSubsystems, pciClasses |-> pciClasses,
   pciSubclasses |-> pciSubclasses]

TwoSpaces == <<" ", " ">>

ScanLine(st, line) ==
  LET single == HasPrefix(line, <<Tab>>) /\ ~HasPrefix(line, <<Tab, Tab>>)
  IN
  IF line = <<>> \/ HasPrefix(line, <<"#">>) THEN st
  ELSE IF HasPrefix(line, <<"C">>) THEN
    \* class lines
    LET parts == SplitN2(line, TwoSpaces)
    IN  IF Len(parts) >= 2
          THEN LET classID == TrimSpace(Tail(parts[1]))
               IN  [st EXCEPT !.pciClasses = MapPut(@, classID, TrimSpace(parts[2])),
                              !.currentBaseClass = classID,
                              !.currentSubclass = <<>>]
          ELSE st
  ELSE IF single THEN
    \* subclass lines: every line with exactly one leading tab ends here
    LET parts == SplitN2(TrimPrefix(line, <<Tab>>), TwoSpaces)
    IN  IF Len(parts) >= 2 /\ st.currentBaseClass # <<>>
          THEN LET fullClassID == st.currentBaseClass \o TrimSpace(parts[1])
               IN  [st EXCEPT !.pciSubclasses = MapPut(@, fullClassID, TrimSpace(parts[2])),
                              !.currentSubclass = fullClassID]
          ELSE st
  ELSE IF HasPrefix(line, <<Tab, Tab>>) /\ ~HasPrefix(line, <<Tab, Tab, Tab>>) THEN
    \* programming interface lines: skipped
    st
  ELSE IF ~HasPrefix(line, <<Tab>>) /\ ~HasPrefix(line, <<"C">>) THEN
    \* vendor lines
    LET parts == SplitN2(line, TwoSpaces)
    IN  IF Len(parts) >= 2
          THEN LET vendor == TrimSpace(parts[1])
               IN  [st EXCEPT !.currentVendor = vendor,
                              !.pciVendors = MapPut(@, vendor, TrimSpace(parts[2])),
                              !.currentDevice = <<>>]
          ELSE st
  ELSE IF single THEN
    \* device lines
    LET parts == SplitN2(TrimPrefix(line, <<Tab>>), TwoSpaces)
    IN  IF Len(parts) >= 2 /\ st.currentVendor # <<>>
          THEN LET device == TrimSpace(parts[1])
               IN  [st EXCEPT !.currentDevice = device,
                              !.pciDevices = MapPut2(@, st.currentVendor, device,
                                                     TrimSpace(parts[2]))]
          ELSE st
  ELSE IF HasPrefix(line, <<Tab, Tab>>) THEN
    \* subsystem lines
    LET parts == SplitN2(TrimPrefix(line, <<Tab, Tab>>), TwoSpaces)
    IN  IF Len(parts) >= 2 /\ st.currentVendor # <<>> /\ st.currentDevice # <<>>
          THEN [st EXCEPT !.pciSubsystems =
                            MapPut2(@, SprintfColon(st.currentVendor, st.currentDevice),
                                    TrimSpace(parts[1]), TrimSpace(parts[2]))]
          ELSE st
  ELSE st

(***************************************************************************)
(* Name resolvers                                                          *)
(***************************************************************************)
Prefix0x == <<"0", "x">>

\* strings.ToLower(strings.TrimPrefix(id, "0x")): the key the vendor, device
\* and class resolvers look up
LookupID(id) == ToLower(TrimPrefix(id, Prefix0x))

getPCIVendorName(vendorID) ==
  LET id == LookupID(vendorID)
  IN  IF id \in DOMAIN pciVendors THEN pciVendors[id] ELSE id

getPCIDeviceName(vendorID, deviceID) ==
  LET vid == LookupID(vendorID)
      did == LookupID(deviceID)
  IN  IF vid \in DOMAIN pciDevices /\ did \in DOMAIN pciDevices[vid]
        THEN pciDevices[vid][did]
        ELSE did

\* the keys of getPCISubsystemName: <<outer key, inner key, fallback>>;
\* the prefix is trimmed, the case is left as it is
SubsystemKeys(vendorID, deviceID, subsysVendorID, subsysDeviceID) ==
  LET vid == TrimPrefix(vendorID, Prefix0x)
      did == TrimPrefix(deviceID, Prefix0x)
      svid == TrimPrefix(subsysVendorID, Prefix0x)
      sdid == TrimPrefix(subsysDeviceID, Prefix0x)
  IN  <<SprintfColon(vid, did), SprintfColon(svid, sdid), sdid>>

getPCISubsystemName(vendorID, deviceID, subsysVendorID, subsysDeviceID) ==
  LET k == SubsystemKeys(vendorID, deviceID, subsysVendorID, subsysDeviceID)
  IN  IF k[1] \in DOMAIN pciSubsystems /\ k[2] \in DOMAIN pciSubsystems[k[1]]
        THEN pciSubsystems[k[1]][k[2]]
        ELSE k[3]

UnknownClassOpen == <<"U","n","k","n","o","w","n"," ","c","l","a","s","s"," ","(">>

getPCIClassName(classID) ==
  LET id == LookupID(classID)
  IN  IF Len(id) >= 4 /\ id \in DOMAIN pciSubclasses THEN pciSubclasses[id]
      ELSE IF Len(id) >= 2 /\ SubSeq(id, 1, 2) \in DOMAIN pciClasses
        THEN pciClasses[SubSeq(id, 1, 2)]
      ELSE UnknownClassOpen \o id \o <<")">>

\* the map lookups the four resolvers make for one device, as
\* [table, key] records, in the tables as they are now
KeysLookedUp(vendorID, devID, subsysVendorID, subsysDeviceID, classIDStr) ==
  LET vid == LookupID(vendorID)
      cid == LookupID(classIDStr)
      sk == SubsystemKeys(vendorID, devID, subsysVendorID, subsysDeviceID)
      Key(tb, k) == [table |-> tb, key |-> k]
  IN  {Key("pciVendors", vid), Key("pciVendors", LookupID(subsysVendorID)),
       Key("pciDevices", vid), Key("pciSubsystems", sk[1])}
      \cup (IF vid \in DOMAIN pciDevices
              THEN {Key("pciDevices[vendor]", LookupID(devID))} ELSE {})
      \cup (IF sk[1] \in DOMAIN pciSubsystems
              THEN {Key("pciSubsystems[key]", sk[2])} ELSE {})
      \cup (IF Len(cid) >= 4 THEN {Key("pciSubclasses", cid)} ELSE {})
      \cup (IF ~(Len(cid) >= 4 /\ cid \in DOMAIN pciSubclasses) /\ Len(cid) >= 2
              THEN {Key("pciClasses", SubSeq(cid, 1, 2))} ELSE {})

(***************************************************************************)
(* strconv.ParseFloat(s, 64), for texts without the digit separator "_".   *)
(* A finite value is [kind |-> "fin", n, e], standing for n * 10^e with n  *)
(* not divisible by 10 (0 is n = 0, e = 0), so that equal numbers are      *)
(* equal records: "8.0" and "8" both give n = 8, e = 0.                    *)
(***************************************************************************)
DecDigits == <<"0","1","2","3","4","5","6","7","8","9">>

HexDigits == DecDigits \o <<"a","b","c","d","e","f">>

IsDigit(c, base) == \E i \in 1..base : HexDigits[i] = LowerChar(c) /\ (base = 10 => c = HexDigits[i])

DigitVal(c) == (CHOOSE i \in 1..16 : HexDigits[i] = LowerChar(c)) - 1

\* first index from i on that holds no digit of the base
RECURSIVE ScanDigits(_, _, _)
ScanDigits(s, i, base) ==
  IF i <= Len(s) /\ IsDigit(s[i], base) THEN ScanDigits(s, i + 1, base) ELSE i

\* the number written by the digits of s
RECURSIVE NumOf(_, _)
NumOf(s, base) ==
  IF s = <<>> THEN 0 ELSE NumOf(SubSeq(s, 1, Len(s) - 1), base) * base + DigitVal(s[Len(s)])

RECURSIVE Pow(_, _)
Pow(b, k) == IF k = 0 THEN 1 ELSE b * Pow(b, k - 1)

RECURSIVE Fin(_, _)
Fin(n, e) ==
  IF n = 0 THEN [kind |-> "fin", n |-> 0, e |-> 0]
  ELSE IF n % 10 = 0 THEN Fin(n \div 10, e + 1)
  ELSE [kind |-> "fin", n |-> n, e |-> e]

RECURSIVE NumDigits(_)
NumDigits(n) == IF n < 10 THEN 1 ELSE 1 + NumDigits(n \div 10)

Inf(neg) == [kind |-> "inf", n |-> IF neg THEN -1 ELSE 1, e |-> 0]

NaN == [kind |-> "nan", n |-> 0, e |-> 0]

ParseOK(v) == [ok |-> TRUE, val |-> v]

ParseErr == [ok |-> FALSE, val |-> Fin(0, 0)]

\* strconv's commonPrefixLenIgnoreCase
RECURSIVE commonPrefixLenIgnoreCase(_, _)
commonPrefixLenIgnoreCase(s, prefix) ==
  IF s = <<>> \/ prefix = <<>> \/ LowerChar(Head(s)) # Head(prefix) THEN 0
  ELSE 1 + commonPrefixLenIgnoreCase(Tail(s), Tail(prefix))

\* strconv's special: [ok, val, n] with n the number of characters used
special(s) ==
  LET no == [ok |-> FALSE, val |-> NaN, n |-> 0]
      signed == s # <<>> /\ s[1] \in {"+", "-"}
      rest == IF signed THEN Tail(s) ELSE s
      cpl == commonPrefixLenIgnoreCase(rest, <<"i","n","f","i","n","i","t","y">>)
      n == IF 3 < cpl /\ cpl < 8 THEN 3 ELSE cpl
  IN  IF s = <<>> THEN no
      ELSE IF signed \/ LowerChar(s[1]) = "i"
        THEN IF n = 3 \/ n = 8
               THEN [ok |-> TRUE, val |-> Inf(signed /\ s[1] = "-"),
                     n |-> n + (IF signed THEN 1 ELSE 0)]
               ELSE no
      ELSE IF LowerChar(s[1]) = "n"
        THEN IF commonPrefixLenIgnoreCase(s, <<"n","a","n">>) = 3
               THEN [ok |-> TRUE, val |-> NaN, n |-> 3]
               ELSE no
      ELSE no

\* strconv's readFloat, in the order it reads: the sign, the base prefix, the
\* digits before and after the point, the exponent; then the conversion.

\* the value of the digits read: mantissa * 10^e, or * 2^e after "0x"
readFloatValue(neg, hex, intDigits, fracDigits, e) ==
  LET mant == (IF neg THEN -1 ELSE 1) * NumOf(intDigits \o fracDigits, IF hex THEN 16 ELSE 10)
      exp2 == e - 4 * Len(fracDigits)
  IN  IF ~hex THEN Fin(mant, e - Len(fracDigits))
      ELSE IF exp2 >= 0 THEN Fin(mant * Pow(2, exp2), 0)
      ELSE Fin(mant * Pow(5, -exp2), exp2)

\* a value beyond the float64 range (decimal exponent above 308) is a range error
readFloatResult(ok, val) ==
  IF ok /\ ~(val.n # 0 /\ NumDigits(IF val.n < 0 THEN -val.n ELSE val.n) - 1 + val.e > 308)
    THEN ParseOK(val)
    ELSE ParseErr

\* end: the first index readFloat did not read; the whole text must be read
readFloatEnd(s, neg, hex, intDigits, fracDigits, sawexp, eneg, e0, end) ==
  LET expDigits == IF sawexp THEN SubSeq(s, e0, end - 1) ELSE <<>>
      ok == /\ Len(intDigits) + Len(fracDigits) > 0
            /\ sawexp => expDigits # <<>>
            /\ hex => sawexp
            /\ end = Len(s) + 1
  IN  readFloatResult(ok,
        readFloatValue(neg, hex, intDigits, fracDigits,
                       (IF eneg THEN -1 ELSE 1) * NumOf(expDigits, 10)))

readFloatExponent(s, neg, hex, intDigits, fracDigits, fracEnd) ==
  LET sawexp == fracEnd <= Len(s) /\ LowerChar(s[fracEnd]) = (IF hex THEN "p" ELSE "e")
      esigned == sawexp /\ fracEnd + 1 <= Len(s) /\ s[fracEnd + 1] \in {"+", "-"}
      e0 == IF esigned THEN fracEnd + 2 ELSE fracEnd + 1
  IN  readFloatEnd(s, neg, hex, intDigits, fracDigits, sawexp,
                   esigned /\ s[fracEnd + 1] = "-", e0,
                   IF sawexp THEN ScanDigits(s, e0, 10) ELSE fracEnd)

readFloatFraction(s, neg, hex, m0, intEnd, sawdot, fracEnd) ==
  readFloatExponent(s, neg, hex, SubSeq(s, m0, intEnd - 1),
                    IF sawdot THEN SubSeq(s, intEnd + 1, fracEnd - 1) ELSE <<>>, fracEnd)

readFloatPoint(s, neg, hex, m0, intEnd) ==
  LET sawdot == intEnd <= Len(s) /\ s[intEnd] = "."
  IN  readFloatFraction(s, neg, hex, m0, intEnd, sawdot,
                        IF sawdot THEN ScanDigits(s, intEnd + 1, IF hex THEN 16 ELSE 10)
                                  ELSE intEnd)

readFloatDigits(s, neg, hex, m0) ==
  readFloatPoint(s, neg, hex, m0, ScanDigits(s, m0, IF hex THEN 16 ELSE 10))

readFloatBase(s, neg, i0) ==
  LET hex == i0 + 2 <= Len(s) /\ s[i0] = "0" /\ LowerChar(s[i0 + 1]) = "x"
  IN  readFloatDigits(s, neg, hex, IF hex THEN i0 + 2 ELSE i0)

readFloat(s) ==
  LET signed == s # <<>> /\ s[1] \in {"+", "-"}
  IN  readFloatBase(s, signed /\ s[1] = "-", IF signed THEN 2 ELSE 1)

ParseFloat(s) ==
  LET sp == special(s)
  IN  IF sp.ok THEN (IF sp.n = Len(s) THEN ParseOK(sp.val) ELSE ParseErr)
      ELSE readFloat(s)

(***************************************************************************)
(* Value normalizers                                                       *)
(***************************************************************************)
SuffixGTsPCIe == <<" ","G","T","/","s"," ","P","C","I","e">>

SuffixGTs == <<" ","G","T","/","s">>

parseSpeed(speedStr) ==
  ParseFloat(TrimSpace(TrimSuffix(TrimSuffix(speedStr, SuffixGTsPCIe), SuffixGTs)))

parseWidth(widthStr) == ParseFloat(TrimSpace(TrimPrefix(widthStr, <<"x">>)))

parsePowerState(powerStateStr) ==
  LET s == TrimSpace(powerStateStr)
      f == ParseFloat(s)
      l == ToLower(s)
  IN  IF f.ok THEN f
      ELSE IF l \in {<<"d","0">>, <<"0">>} THEN ParseOK(Fin(0, 0))
      ELSE IF l \in {<<"d","1">>, <<"1">>} THEN ParseOK(Fin(1, 0))
      ELSE IF l \in {<<"d","2">>, <<"2">>} THEN ParseOK(Fin(2, 0))
      ELSE IF l \in {<<"d","3","h","o","t">>, <<"3">>} THEN ParseOK(Fin(3, 0))
      ELSE IF l \in {<<"d","3","c","o","l","d">>, <<"4">>} THEN ParseOK(Fin(4, 0))
      ELSE ParseErr

(***************************************************************************)
(* The hardware inventory file system: four device directories under       *)
(* /sys/bus/pci/devices, each with its attribute files.  A file is         *)
(* [exists, data]; an enumeration returns at most MaxDevices of the        *)
(* directories, in name order.                                             *)
(***************************************************************************)
DevicesDir == <<"/","s","y","s","/","b","u","s","/","p","c","i","/","d","e","v","i","c","e","s","/">>

AttrNames == {"vendor", "device", "subsystem_vendor", "subsystem_device", "class", "revision", "current_link_speed", "current_link_width", "max_link_speed", "max_link_width", "power_state", "d3cold_allowed"}

NoFile == [exists |-> FALSE, data |-> <<>>]

FileOf(data) == [exists |-> TRUE, data |-> data]

\* 0000:00:00.0: every attribute file present and well formed
DirBridge == DevicesDir \o <<"0","0","0","0",":","0","0",":","0","0",".","0">>

DirBridgeFiles ==
  [a \in AttrNames |->
    CASE a = "vendor" -> FileOf(<<"0","x","8","0","8","6","\n">>)
      [] a = "device" -> FileOf(<<"0","x","1","2","3","4","\n">>)
      [] a = "subsystem_vendor" -> FileOf(<<"0","x","8","0","8","6","\n">>)
      [] a = "subsystem_device" -> FileOf(<<"0","x","0","0","0","1","\n">>)
      [] a = "class" -> FileOf(<<"0","x","0","6","0","4","0","0","\n">>)
      [] a = "revision" -> FileOf(<<"0","x","0","1","\n">>)
      [] a = "current_link_speed" -> FileOf(<<"8",".","0"," ","G","T","/","s"," ","P","C","I","e","\n">>)
      [] a = "current_link_width" -> FileOf(<<"1","6","\n">>)
      [] a = "max_link_speed" -> FileOf(<<"1","6",".","0"," ","G","T","/","s"," ","P","C","I","e","\n">>)
      [] a = "max_link_width" -> FileOf(<<"1","6","\n">>)
      [] a = "power_state" -> FileOf(<<"D","0","\n">>)
      [] a = "d3cold_allowed" -> FileOf(<<"1","\n">>)
      [] OTHER -> NoFile]

\* 0000:00:01.0: no attribute file at all
DirBare == DevicesDir \o <<"0","0","0","0",":","0","0",":","0","1",".","0">>

DirBareFiles ==
  [a \in AttrNames |-> NoFile]

\* 0000:00:02.0: upper-case ids, texts the normalizers refuse, a power state beyond D3cold
DirOdd == DevicesDir \o <<"0","0","0","0",":","0","0",":","0","2",".","0">>

DirOddFiles ==
  [a \in AttrNames |->
    CASE a = "vendor" -> FileOf(<<"0","X","8","0","8","6","\n">>)
      [] a = "device" -> FileOf(<<"0","x","1","2","A","B","\n">>)
      [] a = "subsystem_vendor" -> FileOf(<<"0","x","8","0","A","B","\n">>)
      [] a = "subsystem_device" -> FileOf(<<"0","x","0","0","C","D","\n">>)
      [] a = "class" -> FileOf(<<"0","x","0","6","0","4","\n">>)
      [] a = "current_link_speed" -> FileOf(<<"U","n","k","n","o","w","n","\n">>)
      [] a = "current_link_width" -> FileOf(<<"0","\n">>)
      [] a = "max_link_speed" -> FileOf(<<"2",".","5"," ","G","T","/","s","\n">>)
      [] a = "max_link_width" -> FileOf(<<"x","8","\n">>)
      [] a = "power_state" -> FileOf(<<"5","\n">>)
      [] a = "d3cold_allowed" -> FileOf(<<"y","e","s","\n">>)
      [] OTHER -> NoFile]

\* 0000:00:03.0: ids without prefix, the sentinel text in the files, D3cold
DirAsleep == DevicesDir \o <<"0","0","0","0",":","0","0",":","0","3",".","0">>

DirAsleepFiles ==
  [a \in AttrNames |->
    CASE a = "vendor" -> FileOf(<<"8","0","8","6","\n">>)
      [] a = "device" -> FileOf(<<"1","2","3","4","\n">>)
      [] a = "subsystem_vendor" -> FileOf(<<"8","0","8","6","\n">>)
      [] a = "subsystem_device" -> FileOf(<<"0","0","0","1","\n">>)
      [] a = "class" -> FileOf(<<"0","x","0","6","\n">>)
      [] a = "revision" -> FileOf(<<"0","x","0","0","\n">>)
      [] a = "current_link_speed" -> FileOf(<<"u","n","k","n","o","w","n","\n">>)
      [] a = "current_link_width" -> FileOf(<<"u","n","k","n","o","w","n","\n">>)
      [] a = "max_link_speed" -> FileOf(<<"8",".","0"," ","G","T","/","s"," ","P","C","I","e","\n">>)
      [] a = "power_state" -> FileOf(<<"D","3","c","o","l","d","\n">>)
      [] a = "d3cold_allowed" -> FileOf(<<"0","\n">>)
      [] OTHER -> NoFile]

SysfsDevices == <<DirBridge, DirBare, DirOdd, DirAsleep>>

Sysfs ==
  [d \in {SysfsDevices[i] : i \in 1..Len(SysfsDevices)} |->
    CASE d = DirBridge -> DirBridgeFiles
      [] d = DirBare -> DirBareFiles
      [] d = DirOdd -> DirOddFiles
      [] d = DirAsleep -> DirAsleepFiles]

(***************************************************************************)
(* Device metric collector                                                 *)
(***************************************************************************)
\* filepath.Base of a path without trailing slash: what follows the last "/"
RECURSIVE Base(_)
Base(path) ==
  IF \E i \in 1..Len(path) : path[i] = "/"
    THEN Base(SubSeq(path, (CHOOSE i \in 1..Len(path) : path[i] = "/") + 1, Len(path)))
    ELSE path

Unknown == <<"u","n","k","n","o","w","n">>

\* readFileContent(filepath.Join(devicePath, name))
readFileContent(devicePath, name) ==
  LET f == Sysfs[devicePath][name]
  IN  IF ~f.exists THEN Unknown ELSE TrimSpace(f.data)

Observation(desc, value, labels) == [desc |-> desc, value |-> value, labels |-> labels]

\* a SendNumeric that sends the zero value when the normalizer fails
SendNumericDefaultsToZero(ch, desc, raw, parsed, deviceID) ==
  IF raw # Unknown
    THEN Append(ch, Observation(desc, parsed.val, <<deviceID>>))
    ELSE ch

\* one "if raw != unknown { if v, err := parse(raw); err == nil { ch <- ... } }"
SendNumeric(ch, desc, raw, parsed, deviceID) ==
  IF raw # Unknown /\ parsed.ok
    THEN Append(ch, Observation(desc, parsed.val, <<deviceID>>))
    ELSE ch

\* the static info metric: 12 label values, constant value 1
InfoMetric(devicePath, deviceID) ==
  LET vendorID == readFileContent(devicePath, "vendor")
      devID == readFileContent(devicePath, "device")
      subsysVendorID == readFileContent(devicePath, "subsystem_vendor")
      subsysDeviceID == readFileContent(devicePath, "subsystem_device")
      classIDStr == readFileContent(devicePath, "class")
  IN  Observation("info", Fin(1, 0),
        <<deviceID,
          vendorID, getPCIVendorName(vendorID),
          devID, getPCIDeviceName(vendorID, devID),
          subsysVendorID, getPCIVendorName(subsysVendorID),
          subsysDeviceID,
          getPCISubsystemName(vendorID, devID, subsysVendorID, subsysDeviceID),
          classIDStr, getPCIClassName(classIDStr),
          readFileContent(devicePath, "revision")>>)

\* the six numeric metrics of one device, sent on ch in the order of the code
SendNumerics(ch, devicePath, deviceID) ==
  LET currentSpeedStr == readFileContent(devicePath, "current_link_speed")
      currentWidthStr == readFileContent(devicePath, "current_link_width")
      maxSpeedStr == readFileContent(devicePath, "max_link_speed")
      maxWidthStr == readFileContent(devicePath, "max_link_width")
      powerStateStr == readFileContent(devicePath, "power_state")
      d3coldAllowedStr == readFileContent(devicePath, "d3cold_allowed")
      ch1 == SendNumeric(ch, "currentSpeed", currentSpeedStr,
                         parseSpeed(currentSpeedStr), deviceID)
      ch2 == SendNumeric(ch1, "currentWidth", currentWidthStr,
                         parseWidth(currentWidthStr), deviceID)
      ch3 == SendNumeric(ch2, "maxSpeed", maxSpeedStr, parseSpeed(maxSpeedStr), deviceID)
      ch4 == SendNumeric(ch3, "maxWidth", maxWidthStr, parseWidth(maxWidthStr), deviceID)
      ch5 == SendNumeric(ch4, "powerState", powerStateStr,
                         parsePowerState(powerStateStr), deviceID)
  IN  SendNumeric(ch5, "d3coldAllowed", d3coldAllowedStr,
                  ParseFloat(d3coldAllowedStr), deviceID)

\* a collectDeviceMetrics that gives up on a device whose vendor file is unreadable
collectDeviceMetricsNeedsVendor(ch, devicePath, deviceID) ==
  IF readFileContent(devicePath, "vendor") = Unknown THEN ch
  ELSE SendNumerics(Append(ch, InfoMetric(devicePath, deviceID)), devicePath, deviceID)

\* a collectDeviceMetrics that sends the info metric after the numeric ones
collectDeviceMetricsInfoLast(ch, devicePath, deviceID) ==
  Append(SendNumerics(ch, devicePath, deviceID), InfoMetric(devicePath, deviceID))

\* the channel after collectDeviceMetrics(ch, devicePath, deviceID); it returns nil
collectDeviceMetrics(ch, devicePath, deviceID) ==
  SendNumerics(Append(ch, InfoMetric(devicePath, deviceID)), devicePath, deviceID)

\* the results filepath.Glob can give: the directories present, in name order
RECURSIVE Pick(_, _)
Pick(dirs, keep) ==
  IF dirs = <<>> THEN <<>>
  ELSE (IF Len(dirs) \in keep THEN Pick(SubSeq(dirs, 1, Len(dirs) - 1), keep)
                                     \o <<dirs[Len(dirs)]>>
        ELSE Pick(SubSeq(dirs, 1, Len(dirs) - 1), keep))

GlobResults ==
  {Pick(SysfsDevices, keep) :
     keep \in {k \in SUBSET (1..Len(SysfsDevices)) : Cardinality(k) <= MaxDevices}}

\* the polls (scrapes) that may run Update at the same time
Pollers == {"scrape1", "scrape2"}

Init ==
  /\ openable \in [1..NumPaths -> BOOLEAN]
  /\ loadPC = "open"
  /\ file = 0
  /\ scanner = <<>>
  /\ scanned = <<>>
  /\ currentVendor = <<>> /\ currentDevice = <<>>
  /\ currentBaseClass = <<>> /\ currentSubclass = <<>>
  /\ pciVendors = EmptyMap /\ pciDevices = EmptyMap /\ pciSubsystems = EmptyMap
  /\ pciClasses = EmptyMap /\ pciSubclasses = EmptyMap
  /\ pc = [p \in Pollers |-> "idle"]
  /\ devices = [p \in Pollers |-> <<>>]
  /\ next = [p \in Pollers |-> 1]
  /\ chans = [p \in Pollers |-> <<>>]
  /\ err = [p \in Pollers |-> "nil"]
  /\ ret = [p \in Pollers |-> "none"]

\* a path loop without the break: the last path that opens is the one parsed
LoadOpenTakesLast ==
  /\ loadPC = "open"
  /\ LET ok == {i \in 1..NumPaths : openable[i]}
     IN  IF ok = {}
           THEN /\ loadPC' = "done"
                /\ UNCHANGED <<file, scanner>>
           ELSE /\ file' = CHOOSE i \in ok : \A j \in ok : i >= j
                /\ \E content \in Files : scanner' = content
                /\ loadPC' = "scan"
  /\ UNCHANGED <<openable, scanned, loaderLocals, tables, polls>>

\* the path loop: the first path that opens, or return when none does
LoadOpen ==
  /\ loadPC = "open"
  /\ LET ok == {i \in 1..NumPaths : openable[i]}
     IN  IF ok = {}
           THEN /\ loadPC' = "done"
                /\ UNCHANGED <<file, scanner>>
           ELSE /\ file' = CHOOSE i \in ok : \A j \in ok : i <= j
                /\ \E content \in Files : scanner' = content
                /\ loadPC' = "scan"
  /\ UNCHANGED <<openable, scanned, loaderLocals, tables, polls>>

\* a loop that declares currentBaseClass inside its body: every line starts
\* without a base class
LoadLineForgetsBaseClass ==
  /\ loadPC = "scan"
  /\ scanner # <<>>
  /\ LET st == ScanLine([LoaderState EXCEPT !.currentBaseClass = <<>>], Head(scanner))
     IN  /\ currentVendor' = st.currentVendor
         /\ currentDevice' = st.currentDevice
         /\ currentBaseClass' = st.currentBaseClass
         /\ currentSubclass' = st.currentSubclass
         /\ pciVendors' = st.pciVendors
         /\ pciDevices' = st.pciDevices
         /\ pciSubsystems' = st.pciSubsystems
         /\ pciClasses' = st.pciClasses
         /\ pciSubclasses' = st.pciSubclasses
  /\ scanner' = Tail(scanner)
  /\ scanned' = Append(scanned, Head(scanner))
  /\ UNCHANGED <<openable, loadPC, file, polls>>

\* scanner.Scan() returns a line: one iteration of the loop
LoadLine ==
  /\ loadPC = "scan"
  /\ scanner # <<>>
  /\ LET st == ScanLine(LoaderState, Head(scanner))
     IN  /\ currentVendor' = st.currentVendor
         /\ currentDevice' = st.currentDevice
         /\ currentBaseClass' = st.currentBaseClass
         /\ currentSubclass' = st.currentSubclass
         /\ pciVendors' = st.pciVendors
         /\ pciDevices' = st.pciDevices
         /\ pciSubsystems' = st.pciSubsystems
         /\ pciClasses' = st.pciClasses
         /\ pciSubclasses' = st.pciSubclasses
  /\ scanner' = Tail(scanner)
  /\ scanned' = Append(scanned, Head(scanner))
  /\ UNCHANGED <<openable, loadPC, file, polls>>

\* scanner.Scan() returns false: loadPCIIds returns, the file is closed and
\* the locals are gone
LoadReturn ==
  /\ loadPC = "scan"
  /\ scanner = <<>>
  /\ loadPC' = "done"
  /\ scanned' = <<>>
  /\ currentVendor' = <<>> /\ currentDevice' = <<>>
  /\ currentBaseClass' = <<>> /\ currentSubclass' = <<>>
  /\ UNCHANGED <<openable, file, scanner, tables, polls>>

\* an Update that logs the error of filepath.Glob and returns nil
UpdateGlobSwallowsError(p) ==
  /\ loadPC = "done"
  /\ pc[p] \in {"idle", "returned"}
  /\ chans' = [chans EXCEPT ![p] = <<>>]
  /\ next' = [next EXCEPT ![p] = 1]
  /\ \/ /\ \E found \in GlobResults : devices' = [devices EXCEPT ![p] = found]
        /\ err' = [err EXCEPT ![p] = "nil"]
        /\ pc' = [pc EXCEPT ![p] = "collect"]
        /\ ret' = [ret EXCEPT ![p] = "none"]
     \/ /\ devices' = [devices EXCEPT ![p] = <<>>]
        /\ err' = [err EXCEPT ![p] = "ErrBadPattern"]
        /\ pc' = [pc EXCEPT ![p] = "returned"]
        /\ ret' = [ret EXCEPT ![p] = "nil"]
  /\ UNCHANGED <<loader, tables>>

\* Update is called (init() has run): filepath.Glob lists the devices or fails
UpdateGlob(p) ==
  /\ loadPC = "done"
  /\ pc[p] \in {"idle", "returned"}
  /\ chans' = [chans EXCEPT ![p] = <<>>]
  /\ next' = [next EXCEPT ![p] = 1]
  /\ \/ /\ \E found \in GlobResults : devices' = [devices EXCEPT ![p] = found]
        /\ err' = [err EXCEPT ![p] = "nil"]
        /\ pc' = [pc EXCEPT ![p] = "collect"]
        /\ ret' = [ret EXCEPT ![p] = "none"]
     \/ /\ devices' = [devices EXCEPT ![p] = <<>>]
        /\ err' = [err EXCEPT ![p] = "ErrBadPattern"]
        /\ pc' = [pc EXCEPT ![p] = "returned"]
        /\ ret' = [ret EXCEPT ![p] = "error"]
  /\ UNCHANGED <<loader, tables>>

\* an iteration whose vendor resolver remembers the ids it did not find
UpdateDeviceCachesMiss(p) ==
  /\ pc[p] = "collect"
  /\ next[p] <= Len(devices[p])
  /\ LET devicePath == devices[p][next[p]]
         id == LookupID(readFileContent(devicePath, "vendor"))
     IN  /\ chans' = [chans EXCEPT ![p] = collectDeviceMetrics(@, devicePath, Base(devicePath))]
         /\ pciVendors' = IF id \in DOMAIN pciVendors THEN pciVendors
                                                      ELSE MapPut(pciVendors, id, id)
  /\ next' = [next EXCEPT ![p] = @ + 1]
  /\ UNCHANGED <<loader, pciDevices, pciSubsystems, pciClasses, pciSubclasses,
                 pc, devices, err, ret>>

\* one iteration of Update's loop: collectDeviceMetrics on the next device
UpdateDevice(p) ==
  /\ pc[p] = "collect"
  /\ next[p] <= Len(devices[p])
  /\ LET devicePath == devices[p][next[p]]
     IN  chans' = [chans EXCEPT ![p] = collectDeviceMetrics(@, devicePath, Base(devicePath))]
  /\ next' = [next EXCEPT ![p] = @ + 1]
  /\ UNCHANGED <<loader, tables, pc, devices, err, ret>>

\* the loop is over: Update returns nil
UpdateReturn(p) ==
  /\ pc[p] = "collect"
  /\ next[p] > Len(devices[p])
  /\ pc' = [pc EXCEPT ![p] = "returned"]
  /\ ret' = [ret EXCEPT ![p] = "nil"]
  /\ UNCHANGED <<loader, tables, devices, next, chans, err>>

Next ==
  \/ LoadOpen
  \/ LoadLine
  \/ LoadReturn
  \/ \E p \in Pollers : UpdateGlob(p)
  \/ \E p \in Pollers : UpdateDevice(p)
  \/ \E p \in Pollers : UpdateReturn(p)

Spec == Init /\ [][Next]_vars

\* the steps of UpdateDevice(p), told by what they do to next[p]: no other
\* action adds one to next[p] of a poll that is collecting
UpdateDeviceStep(p) ==
  /\ pc[p] = "collect"
  /\ next[p] <= Len(devices[p])
  /\ next'[p] = next[p] + 1

\* a poll under way is not held up: the loop of Update goes on to the next
\* device and returns after the last one.  The first disjunction is
\* WF_vars(UpdateDevice(p)), with ENABLED <<UpdateDevice(p)>>_vars written out
\* as the guard of the action.
FairSpec ==
  /\ Spec
  /\ \A p \in Pollers :
       /\ \/ []<>~(pc[p] = "collect" /\ next[p] <= Len(devices[p]))
          \/ []<><<UpdateDeviceStep(p)>>_vars
       /\ WF_vars(UpdateReturn(p))

(***************************************************************************)
(* The pci.ids grammar as the specification words it: the context the      *)
(* lines read so far put the loader in.  Used to state the loader claims.  *)
(***************************************************************************)
IsDeclaration(line) == Len(SplitN2(line, TwoSpaces)) >= 2

DeclID(line) == TrimSpace(SplitN2(line, TwoSpaces)[1])

DeclName(line) == TrimSpace(SplitN2(line, TwoSpaces)[2])

LeadingTabs(line, n) ==
  /\ HasPrefix(line, [i \in 1..n |-> Tab])
  /\ ~HasPrefix(line, [i \in 1..(n + 1) |-> Tab])

RECURSIVE GrammarContext(_)
GrammarContext(lines) ==
  IF lines = <<>> THEN [kind |-> "none", vendor |-> <<>>, device |-> <<>>]
  ELSE LET before == GrammarContext(SubSeq(lines, 1, Len(lines) - 1))
           line == lines[Len(lines)]
       IN  IF line = <<>> \/ HasPrefix(line, <<"#">>) \/ ~IsDeclaration(line) THEN before
           ELSE IF HasPrefix(line, <<"C">>)
             THEN [kind |-> "class", vendor |-> <<>>, device |-> <<>>]
           ELSE IF LeadingTabs(line, 0)
             THEN [kind |-> "vendor", vendor |-> DeclID(line), device |-> <<>>]
           ELSE IF LeadingTabs(line, 1) /\ before.kind = "vendor"
             THEN [before EXCEPT !.device = DeclID(SubSeq(line, 2, Len(line)))]
           ELSE before

\* the loader scans its next line in this step
ScansLine == loadPC = "scan" /\ scanner # <<>> /\ scanned' = Append(scanned, Head(scanner))

\* C1: a line with exactly one leading tab, <hex-id><two spaces><name>, read in
\* the context of a vendor declaration (currentVendor is set) is a device
\* declaration: once it is read, DeviceTable[currentVendor][hex-id] is the name.
C1_DeviceLineFillsDeviceTable ==
  [][(/\ ScansLine
      /\ LeadingTabs(Head(scanner), 1)
      /\ IsDeclaration(Tail(Head(scanner)))
      /\ GrammarContext(scanned).kind = "vendor"
      /\ currentVendor # <<>>)
     => LET id == DeclID(Tail(Head(scanner)))
        IN  /\ currentVendor \in DOMAIN pciDevices'
            /\ id \in DOMAIN pciDevices'[currentVendor]
            /\ pciDevices'[currentVendor][id] = DeclName(Tail(Head(scanner)))]_vars

\* C2: a line with exactly two leading tabs read after a device declaration
\* (vendor and device context set) is a subsystem declaration: once it is
\* read, SubsystemTable["vendor:device"][hex-id] is the name on the line.
C2_SubsystemLineFillsSubsystemTable ==
  [][(/\ ScansLine
      /\ LeadingTabs(Head(scanner), 2)
      /\ IsDeclaration(SubSeq(Head(scanner), 3, Len(Head(scanner))))
      /\ GrammarContext(scanned).kind = "vendor"
      /\ GrammarContext(scanned).device # <<>>)
     => LET ctx == GrammarContext(scanned)
            decl == SubSeq(Head(scanner), 3, Len(Head(scanner)))
            key == SprintfColon(ctx.vendor, ctx.device)
        IN  /\ key \in DOMAIN pciSubsystems'
            /\ DeclID(decl) \in DOMAIN pciSubsystems'[key]
            /\ pciSubsystems'[key][DeclID(decl)] = DeclName(decl)]_vars

(***************************************************************************)
(* What the polls have sent.                                               *)
(***************************************************************************)
\* the devices poll p has run collectDeviceMetrics on, as indices of devices[p]
Collected(p) == 1..(next[p] - 1)

InfoSent(p) == {i \in DOMAIN chans[p] : chans[p][i].desc = "info"}

\* indices in chans[p] of the observations named desc of the device in dir
SentFor(p, desc, dir) ==
  {i \in DOMAIN chans[p] : chans[p][i].desc = desc /\ chans[p][i].labels[1] = Base(dir)}

\* an id as the claims normalize it: lower case, without "0x"
NormalID(raw) == TrimPrefix(ToLower(raw), Prefix0x)

LowerHexChars == {HexDigits[i] : i \in 1..16}

IsLowerHex(s) == s # <<>> /\ \A i \in 1..Len(s) : s[i] \in LowerHexChars

IsLowerHexPair(s) ==
  \E i \in 1..Len(s) :
    s[i] = ":" /\ IsLowerHex(SubSeq(s, 1, i - 1)) /\ IsLowerHex(SubSeq(s, i + 1, Len(s)))

\* a raw id as an attribute file holds it: hex digits, "0x" or "0X" before them or not
IsRawHexID(raw) == IsLowerHex(NormalID(raw))

\* C3: vendor name resolution does not depend on the hex prefix or the letter
\* case of the raw id: "0x8086", "8086" and "0X8086" resolve to the same name.
C3_VendorNamePrefixAndCaseInvariant ==
  \A p \in Pollers : \A i, j \in InfoSent(p) :
    NormalID(chans[p][i].labels[2]) = NormalID(chans[p][j].labels[2])
      => chans[p][i].labels[3] = chans[p][j].labels[3]

\* the class name the claim gives a raw class id
ClassNameByClaim(raw) ==
  LET id == NormalID(raw)
  IN  IF Len(id) >= 4 /\ SubSeq(id, 1, 4) \in DOMAIN pciSubclasses
        THEN pciSubclasses[SubSeq(id, 1, 4)]
      ELSE IF Len(id) >= 2 /\ SubSeq(id, 1, 2) \in DOMAIN pciClasses
        THEN pciClasses[SubSeq(id, 1, 2)]
      ELSE UnknownClassOpen \o id \o <<")">>

\* C4: the class name of a raw class id (the 6-digit form of the class file
\* included) is the SubclassTable name of its 4-digit base class + subclass id
\* when present, else the ClassTable name of its first two digits when
\* present, else "Unknown class (<id>)".
C4_ClassNameFromFourDigitSubclass ==
  \A p \in Pollers : \A i \in InfoSent(p) :
    chans[p][i].labels[11] = ClassNameByClaim(chans[p][i].labels[10])

\* C5: every key inserted into or looked up in the five tables is a lower-case
\* hexadecimal string without "0x" prefix (composite keys: two of them joined
\* by ":").
C5_KeysAreNormalized ==
  /\ \A k \in DOMAIN pciVendors : IsLowerHex(k)
  /\ \A k \in DOMAIN pciClasses : IsLowerHex(k)
  /\ \A k \in DOMAIN pciSubclasses : IsLowerHex(k)
  /\ \A v \in DOMAIN pciDevices :
       IsLowerHex(v) /\ \A d \in DOMAIN pciDevices[v] : IsLowerHex(d)
  /\ \A k \in DOMAIN pciSubsystems :
       IsLowerHexPair(k) /\ \A s \in DOMAIN pciSubsystems[k] : IsLowerHexPair(s)
  /\ \A p \in Pollers : \A n \in Collected(p) :
       LET dir == devices[p][n]
           vendorID == readFileContent(dir, "vendor")
           devID == readFileContent(dir, "device")
           subsysVendorID == readFileContent(dir, "subsystem_vendor")
           subsysDeviceID == readFileContent(dir, "subsystem_device")
           classIDStr == readFileContent(dir, "class")
       IN  (\A raw \in {vendorID, devID, subsysVendorID, subsysDeviceID, classIDStr} :
              IsRawHexID(raw))
           => \A l \in KeysLookedUp(vendorID, devID, subsysVendorID, subsysDeviceID,
                                    classIDStr) :
                IF l.table \in {"pciSubsystems", "pciSubsystems[key]"}
                  THEN IsLowerHexPair(l.key)
                  ELSE IsLowerHex(l.key)

\* C6: in a poll whose enumeration succeeded, exactly one info observation
\* with value 1 is sent for each device collected, whatever its attribute
\* files hold, and none for a device not collected yet.
C6_OneInfoPerDevice ==
  \A p \in Pollers :
    err[p] = "nil" =>
      /\ \A n \in 1..Len(devices[p]) :
           /\ Cardinality(SentFor(p, "info", devices[p][n])) =
                (IF n \in Collected(p) THEN 1 ELSE 0)
           /\ \A i \in SentFor(p, "info", devices[p][n]) : chans[p][i].value = Fin(1, 0)
      /\ ret[p] = "nil" => Cardinality(InfoSent(p)) = Len(devices[p])

\* a poll has returned nil after collecting the device without any attribute
\* file and the device whose attributes the normalizers refuse
C6_Witness ==
  \E p \in Pollers :
    /\ ret[p] = "nil"
    /\ devices[p] = <<DirBare, DirOdd>>
    /\ Cardinality(InfoSent(p)) = 2

NumericAttrs ==
  {<<"currentSpeed", "current_link_speed">>, <<"currentWidth", "current_link_width">>,
   <<"maxSpeed", "max_link_speed">>, <<"maxWidth", "max_link_width">>,
   <<"powerState", "power_state">>, <<"d3coldAllowed", "d3cold_allowed">>}

\* the normalizer of each numeric attribute
Normalized(desc, raw) ==
  CASE desc \in {"currentSpeed", "maxSpeed"} -> parseSpeed(raw)
    [] desc \in {"currentWidth", "maxWidth"} -> parseWidth(raw)
    [] desc = "powerState" -> parsePowerState(raw)
    [] desc = "d3coldAllowed" -> ParseFloat(raw)

\* for each directory and numeric attribute: is the raw value read neither the
\* sentinel nor refused by its normalizer, and the value then
NumericDue ==
  [dir \in DOMAIN Sysfs |->
    [a \in NumericAttrs |->
      LET raw == readFileContent(dir, a[2])
          r == Normalized(a[1], raw)
      IN  [send |-> raw # Unknown /\ r.ok, val |-> r.val]]]

\* C7: for each device collected and each of the six numeric attributes, the
\* observation is sent (once, with the normalized value) if and only if the
\* raw value is not the sentinel "unknown" and its normalizer succeeds; an
\* omitted observation stops neither the other attributes nor later devices.
C7_NumericSentIffNormalized ==
  \A p \in Pollers : \A n \in Collected(p) : \A a \in NumericAttrs :
    LET due == NumericDue[devices[p][n]][a]
        sent == SentFor(p, a[1], devices[p][n])
    IN  IF due.send
          THEN /\ Cardinality(sent) = 1
               /\ \A i \in sent : chans[p][i].value = due.val
          ELSE sent = {}

\* a poll has returned nil after the odd device, whose current speed and
\* d3cold_allowed are refused while its widths and max speed are sent, and the
\* sleeping device after it, whose power state is sent
C7_Witness ==
  \E p \in Pollers :
    /\ ret[p] = "nil"
    /\ devices[p] = <<DirOdd, DirAsleep>>
    /\ SentFor(p, "currentSpeed", DirOdd) = {}
    /\ SentFor(p, "d3coldAllowed", DirOdd) = {}
    /\ \E i \in SentFor(p, "maxSpeed", DirOdd) : chans[p][i].value = Fin(25, -1)
    /\ \E i \in SentFor(p, "maxWidth", DirOdd) : chans[p][i].value = Fin(8, 0)
    /\ SentFor(p, "currentSpeed", DirAsleep) = {}
    /\ \E i \in SentFor(p, "powerState", DirAsleep) : chans[p][i].value = Fin(4, 0)

PowerTokens ==
  <<{<<"0">>, <<"d","0">>}, {<<"1">>, <<"d","1">>}, {<<"2">>, <<"d","2">>},
    {<<"3">>, <<"d","3","h","o","t">>}, {<<"4">>, <<"d","3","c","o","l","d">>}>>

\* C8: parsePowerState succeeds exactly on "0".."4" and on d0, d1, d2, d3hot,
\* d3cold in any letter case (after trimming), giving the ordinal 0..4, and
\* fails on every other text; so every power-state observation is in 0..4.
C8_PowerStateInRange ==
  \A p \in Pollers :
    /\ \A n \in Collected(p) :
         LET raw == readFileContent(devices[p][n], "power_state")
             r == parsePowerState(raw)
             known == {k \in 1..5 : ToLower(TrimSpace(raw)) \in PowerTokens[k]}
         IN  /\ r.ok <=> known # {}
             /\ \A k \in known : r.val = Fin(k - 1, 0)
    /\ \A i \in DOMAIN chans[p] :
         chans[p][i].desc = "powerState" => chans[p][i].value \in {Fin(k, 0) : k \in 0..4}

\* C9: when the device enumeration fails, Update returns an error at once and
\* the poll sends no observation and collects no device.
C9_EnumerationFailureAbortsPoll ==
  \A p \in Pollers :
    err[p] # "nil" =>
      /\ ret[p] = "error"
      /\ pc[p] = "returned"
      /\ chans[p] = <<>>
      /\ Collected(p) = {}

\* the enumeration of one poll has failed while another poll, whose
\* enumeration succeeded, has sent observations
C9_Witness ==
  \E p, q \in Pollers :
    /\ err[p] = "ErrBadPattern" /\ ret[p] = "error"
    /\ err[q] = "nil" /\ chans[q] # <<>>

\* C10: the five tables are written by the load alone, which is over before
\* the first poll starts: no step of any poll changes a table.
C10_TablesFrozenAfterLoad ==
  [][/\ tables' # tables => (loadPC = "scan" /\ \A p \in Pollers : pc[p] = "idle")
     /\ (\E p \in Pollers : pc'[p] # "idle") => (loadPC = "done" /\ tables' = tables)]_vars

\* two polls are under way over loaded tables, one has collected a device
\* whose vendor id misses the vendor table
C10_Witness ==
  /\ pciVendors # EmptyMap /\ pciSubclasses # EmptyMap
  /\ pc["scrape1"] = "collect" /\ pc["scrape2"] = "collect"
  /\ \E n \in Collected("scrape1") :
       LookupID(readFileContent(devices["scrape1"][n], "vendor")) \notin DOMAIN pciVendors
  /\ Collected("scrape2") # {}

(***************************************************************************)
(* The file the loader parses.                                             *)
(***************************************************************************)
\* the name a resolver gave echoes the raw id: the same text once the case
\* and the "0x" prefix are set aside
EchoesID(raw, name) == NormalID(name) = NormalID(raw)

\* the class name is "Unknown class (<id>)" with an echo of the raw id
EchoesClassID(raw, name) ==
  /\ HasPrefix(name, UnknownClassOpen)
  /\ HasSuffix(name, <<")">>)
  /\ Len(name) > Len(UnknownClassOpen)
  /\ EchoesID(raw, SubSeq(name, Len(UnknownClassOpen) + 1, Len(name) - 1))

\* C11: loadPCIIds parses one file, the first path of pciIdsPaths that opens,
\* never a later one; when no path opens it returns at once (the polls run),
\* the tables stay empty and every name an info observation carries is the
\* fallback of its raw id.
C11_FirstOpenablePathOrFallback ==
  LET ok == {i \in 1..NumPaths : openable[i]}
  IN  /\ loadPC = "open" => file = 0
      /\ loadPC # "open" =>
            IF ok = {} THEN file = 0 /\ loadPC = "done"
                       ELSE file \in ok /\ \A j \in ok : file <= j
      /\ ok = {} =>
            /\ scanner = <<>> /\ scanned = <<>>
            /\ pciVendors = EmptyMap /\ pciDevices = EmptyMap
            /\ pciSubsystems = EmptyMap
            /\ pciClasses = EmptyMap /\ pciSubclasses = EmptyMap
            /\ \A p \in Pollers : \A i \in InfoSent(p) :
                 LET l == chans[p][i].labels
                 IN  /\ EchoesID(l[2], l[3])
                     /\ EchoesID(l[4], l[5])
                     /\ EchoesID(l[6], l[7])
                     /\ EchoesID(l[8], l[9])
                     /\ EchoesClassID(l[10], l[11])

\* no path opened, and a poll has returned nil after collecting the
\* well-formed bridge and the device with upper-case ids
C11_Witness ==
  \E p \in Pollers :
    /\ \A i \in 1..NumPaths : ~openable[i]
    /\ loadPC = "done" /\ file = 0
    /\ ret[p] = "nil"
    /\ devices[p] = <<DirBridge, DirOdd>>
    /\ Cardinality(InfoSent(p)) = 2

\* the subsystem name the claim gives four raw ids, in the tables as they are
SubsystemNameByClaim(vendorID, deviceID, subsysVendorID, subsysDeviceID) ==
  LET key == SprintfColon(NormalID(vendorID), NormalID(deviceID))
      subsysKey == SprintfColon(NormalID(subsysVendorID), NormalID(subsysDeviceID))
  IN  IF key \in DOMAIN pciSubsystems /\ subsysKey \in DOMAIN pciSubsystems[key]
        THEN pciSubsystems[key][subsysKey]
        ELSE NormalID(subsysDeviceID)

\* C12: the subsystem name of a device is SubsystemTable["vendor:device"]
\* ["subvendor:subdevice"] of its four ids without "0x" and in lower case when
\* present, and on any miss its subsystem device id without "0x" and in lower
\* case.
C12_SubsystemNameNormalized ==
  \A p \in Pollers : \A i \in InfoSent(p) :
    LET l == chans[p][i].labels
    IN  l[9] = SubsystemNameByClaim(l[2], l[4], l[6], l[8])

(***************************************************************************)
(* The class section of the file.                                          *)
(***************************************************************************)
\* the id of the last class declaration among lines, <<>> when there is none
RECURSIVE LastClassID(_)
LastClassID(lines) ==
  IF lines = <<>> THEN <<>>
  ELSE LET line == lines[Len(lines)]
       IN  IF HasPrefix(line, <<"C">>) /\ IsDeclaration(line)
             THEN TrimSpace(Tail(SplitN2(line, TwoSpaces)[1]))
             ELSE LastClassID(SubSeq(lines, 1, Len(lines) - 1))

\* the line is <one tab><sub-id><two spaces><name>
IsSingleTabDeclaration(line) == LeadingTabs(line, 1) /\ IsDeclaration(Tail(line))

\* C13: a single-tab line <sub-id><two spaces><name> read while a class
\* declaration is current puts the name in SubclassTable under the id of that
\* class followed by the sub-id ("06" then "04": key "0604"), and a line with
\* exactly two leading tabs that follows such a line changes no table.
C13_SubclassLineFillsSubclassTable ==
  [][/\ (/\ ScansLine
         /\ IsSingleTabDeclaration(Head(scanner))
         /\ GrammarContext(scanned).kind = "class")
        => LET key == LastClassID(scanned) \o DeclID(Tail(Head(scanner)))
           IN  /\ currentBaseClass = LastClassID(scanned)
               /\ key \in DOMAIN pciSubclasses'
               /\ pciSubclasses'[key] = DeclName(Tail(Head(scanner)))
               /\ \A k \in DOMAIN pciSubclasses \ {key} :
                    k \in DOMAIN pciSubclasses' /\ pciSubclasses'[k] = pciSubclasses[k]
               /\ DOMAIN pciSubclasses' = DOMAIN pciSubclasses \cup {key}
               /\ UNCHANGED <<pciVendors, pciDevices, pciSubsystems, pciClasses>>
     /\ (/\ ScansLine
         /\ LeadingTabs(Head(scanner), 2)
         /\ scanned # <<>>
         /\ IsSingleTabDeclaration(scanned[Len(scanned)])
         /\ GrammarContext(scanned).kind = "class")
        => UNCHANGED tables]_vars

\* the class line, the subclass line and a line with two leading tabs have
\* been read: "0604" names the subclass and nothing else was stored beside
\* the class
C13_Witness ==
  /\ scanned = <<LineClass, LineSubclass, LineSubsystem>>
  /\ pciClasses = MapPut(EmptyMap, <<"0","6">>, <<"B","r">>)
  /\ pciSubclasses = MapPut(EmptyMap, <<"0","6","0","4">>, <<"P","b">>)
  /\ pciVendors = EmptyMap /\ pciDevices = EmptyMap /\ pciSubsystems = EmptyMap

(***************************************************************************)
(* The order of the observations of a poll.                                *)
(***************************************************************************)
\* the place of each metric in the emission order of one device
EmitRank ==
  [d \in {"info", "currentSpeed", "currentWidth", "maxSpeed", "maxWidth",
          "powerState", "d3coldAllowed"} |->
    CASE d = "info" -> 0
      [] d = "currentSpeed" -> 1
      [] d = "currentWidth" -> 2
      [] d = "maxSpeed" -> 3
      [] d = "maxWidth" -> 4
      [] d = "powerState" -> 5
      [] d = "d3coldAllowed" -> 6]

SlotOf == [dir \in DOMAIN Sysfs |-> Base(dir)]

\* the place in devices[p] of the device an observation of poll p is about
DeviceIndex(p, obs) ==
  CHOOSE n \in 1..Len(devices[p]) : SlotOf[devices[p][n]] = obs.labels[1]

\* the observations poll p has sent are in the order of the per-poll state
\* machine
EmittedInOrder(p) ==
  /\ \A i \in DOMAIN chans[p] :
       \E n \in Collected(p) : SlotOf[devices[p][n]] = chans[p][i].labels[1]
  /\ \A i, j \in DOMAIN chans[p] :
       i < j =>
         LET di == DeviceIndex(p, chans[p][i])
             dj == DeviceIndex(p, chans[p][j])
         IN  \/ di < dj
             \/ di = dj /\ EmitRank[chans[p][i].desc] < EmitRank[chans[p][j].desc]
  /\ \A n \in Collected(p) : SentFor(p, "info", devices[p][n]) # {}

\* C14: within a poll the info observation of a device comes before its
\* numeric observations, these follow in the order current speed, current
\* width, max speed, max width, power state, d3cold_allowed, and all the
\* observations of a device come before any of the next device enumerated;
\* a poll whose enumeration succeeded goes on to return nil.
C14_EmissionOrderThenDone ==
  /\ [](\A p \in Pollers :
          /\ EmittedInOrder(p)
          /\ (pc[p] = "returned" /\ err[p] = "nil")
               => (ret[p] = "nil" /\ Collected(p) = 1..Len(devices[p])))
  /\ \A p \in Pollers :
       (pc[p] = "collect") ~> (pc[p] = "returned" /\ ret[p] = "nil")

\* a poll has returned nil after the bridge, all of whose metrics are sent,
\* and the device with odd attributes, two of whose metrics are left out
C14_Witness ==
  \E p \in Pollers :
    /\ ret[p] = "nil"
    /\ devices[p] = <<DirBridge, DirOdd>>
    /\ [i \in DOMAIN chans[p] |-> chans[p][i].desc] =
         <<"info", "currentSpeed", "currentWidth", "maxSpeed", "maxWidth",
           "powerState", "d3coldAllowed",
           "info", "currentWidth", "maxSpeed", "maxWidth", "powerState">>
    /\ \A i \in 1..7 : chans[p][i].labels[1] = SlotOf[DirBridge]
    /\ \A i \in 8..12 : chans[p][i].labels[1] = SlotOf[DirOdd]

\* C15: the class context and the vendor context of the loader exclude each
\* other: a single-tab line read when the last class or vendor declaration is
\* a vendor declaration is not a subclass, SubclassTable keeps its entries as
\* they are, wherever the class section and the vendor section are in the file.
C15_NoSubclassUnderVendor ==
  [][(/\ ScansLine
      /\ LeadingTabs(Head(scanner), 1)
      /\ GrammarContext(scanned).kind = "vendor")
     => pciSubclasses' = pciSubclasses]_vars

====
